---- MODULE Spec2Model ----
(***************************************************************************)
(* Rotation-representation conversions of torchgeometry/conversions.py:    *)
(* axis-angle -> rotation matrix, rotation matrix -> quaternion,           *)
(* quaternion -> axis-angle, rtvec -> pose, and the type/shape dispatch    *)
(* in front of them, each in its numpy (unbatched) and torch (batched)     *)
(* implementation.                                                         *)
(*                                                                         *)
(* Numbers.  The code computes in floating point; the model computes the   *)
(* same expressions in exact arithmetic, so rounding is not modelled, with *)
(* one exception: the pivots of the batched rotation_matrix_to_quaternion  *)
(* on integer-valued matrices are summed as float32 sums them (Float32).   *)
(*   - an array argument holds rationals num/den (integer numerators over  *)
(*     one positive denominator);                                          *)
(*   - a scalar result is a record tagged by k: "rat" (a reduced fraction),*)
(*     "nan" (a non-finite float: 0/0, x/0, sqrt of a negative, and        *)
(*     anything computed from one), "rod" (a Rodrigues entry, kept         *)
(*     symbolic in cos/sin of the angle);                                  *)
(*   - a quaternion result is u/sqrt(d), integers u and d;                 *)
(*   - an axis-angle result is a scalar k (2, or 2*theta/sin(theta) with   *)
(*     theta in a normal form of atan2) times a direction u/sqrt(d).       *)
(* Arrays are indexed from 1: the code's a[i, j] is a[i+1][j+1] here.      *)
(***************************************************************************)
EXTENDS Integers, Sequences, FiniteSets, TLC

\* pc:       "idle" before the call, "returned" after it; for a layer,
\*           "constructed" once the module exists, "forwarded" after forward
\* fn:       the entry point called, or the class of the layer
\* arg:      the argument as passed
\* argAfter: the argument object as the call leaves it
\* out:      the value returned or the exception raised
VARIABLES pc, fn, arg, argAfter, out

vars == <<pc, fn, arg, argAfter, out>>

(***************************************************************************)
(* Bounds of the input space.                                              *)
(***************************************************************************)
\* axis-angle and rtvec rotation numerators range over -MaxAA..MaxAA
MaxAA == 2
\* translation numerators of an rtvec range over 0..MaxTrans
MaxTrans == 3
\* integer quaternions (w,x,y,z) that generate the rotation matrices
MaxCoord == 4
\* integer quaternions given to quaternion_to_angle_axis
MaxQCoord == 2
\* a batched tensor holds 1..MaxBatch elements
MaxBatch == 2

(***************************************************************************)
(* Program constants.                                                      *)
(***************************************************************************)
\* eps = 1e-6, the default of the torch implementations: 1 / TorchEpsDen
TorchEpsDen == 1000000
\* np.finfo(np.float32).eps = 2^-23: 1 / Float32EpsDen
Float32EpsDen == 8388608

(***************************************************************************)
(* Exact arithmetic helpers.                                               *)
(***************************************************************************)
Abs(x) == IF x < 0 THEN -x ELSE x

RECURSIVE GCD(_, _)
GCD(a, b) == IF b = 0 THEN a ELSE GCD(b, a % b)

\* the reduced fraction n/d (d > 0)
Rat(n, d) ==
    LET g == GCD(Abs(n), d)
    IN  [k |-> "rat", n |-> n \div g, d |-> d \div g]

Zero == Rat(0, 1)

One == Rat(1, 1)

NaN == [k |-> "nan"]

RECURSIVE SumSq(_)
SumSq(s) == IF s = <<>> THEN 0 ELSE Head(s) * Head(s) + SumSq(Tail(s))

\* x > 1/epsDen for a fraction x = [n, d] with d > 0
GreaterThanEps(x, epsDen) == x.n * epsDen > x.d

\* m * x for a 0/1 mask m: a non-finite x stays non-finite (0 * nan = nan)
MaskMul(m, x) ==
    IF x.k = "nan" THEN NaN
    ELSE IF m = 1 THEN x ELSE Zero

\* a + b where each is the result of a MaskMul
MaskAdd(a, b) ==
    IF a.k = "nan" \/ b.k = "nan" THEN NaN
    ELSE IF a.k = "rat" /\ a.n = 0 THEN b
    ELSE IF b.k = "rat" /\ b.n = 0 THEN a
    ELSE [k |-> "sum", a |-> a, b |-> b]

(***************************************************************************)
(* Arguments and results.                                                  *)
(***************************************************************************)
Ok(v) == [kind |-> "ok", value |-> v]

\* an exception: its class, what its message names, and whether a check at
\* entry raised it ("entry") or the computation did ("compute")
Raise(exc, about, at) == [kind |-> "raise", exc |-> exc, about |-> about, at |-> at]

NoResult == [kind |-> "none"]

Rank(a) == Len(a.shape)

\* a.shape[-1]
LastDim(a) == a.shape[Len(a.shape)]

RECURSIVE Prod(_)
Prod(s) == IF s = <<>> THEN 1 ELSE Head(s) * Prod(Tail(s))

(***************************************************************************)
(* angle_axis_to_rotation_matrix                                           *)
(***************************************************************************)
\* The scalar cosc*cos(theta) + sgn*w_k*sin(theta) + w_i*w_j*(1 - cos(theta))
\* with theta = sqrt(theta2) and w = v / (theta + plus), v = (vk, vi, vj)/den:
\* the shape of every entry of Rodrigues' formula.  At theta2 = 0 (so v = 0)
\* it is exact: cos = 1, sin = 0, w = 0 / plus.
RodriguesEntry(cosc, sgn, vk, vi, vj, den, theta2, plus) ==
    IF theta2.n = 0 /\ plus.n = 0 THEN NaN
    ELSE IF theta2.n = 0 THEN Rat(cosc, 1)
    ELSE LET lin  == Rat(sgn * vk, den)
             quad == Rat(vi * vj, den * den)
         IN  [k |-> "rod", theta2 |-> Rat(theta2.n, theta2.d), cosc |-> cosc,
              lin |-> lin, quad |-> quad,
              plus |-> IF lin.n = 0 /\ quad.n = 0 THEN Zero ELSE plus]

\* the 4x4 identity with its top-left 3x3 block replaced by b
EmbedBlock(b) ==
    << b[1] \o <<Zero>>, b[2] \o <<Zero>>, b[3] \o <<Zero>>,
       <<Zero, Zero, Zero, One>> >>

\* angle_axis.dot(angle_axis) of a 1-D array: the sum over ALL its components
Dot1(num, den) == [n |-> SumSq(num), d |-> den * den]

\* the 3x3 block of the normal case (Rodrigues' formula), v = num/den
RodriguesBlock(num, den, theta2, plus) ==
    LET x == num[1]
        y == num[2]
        z == num[3]
        E(cosc, sgn, vk, vi, vj) ==
            RodriguesEntry(cosc, sgn, vk, vi, vj, den, theta2, plus)
    IN  << << E(1, 0, x, x, x),  E(0, -1, z, x, y), E(0, 1, y, x, z)  >>,
           << E(0, 1, z, x, y),  E(1, 0, y, y, y),  E(0, -1, x, y, z) >>,
           << E(0, -1, y, x, z), E(0, 1, x, y, z),  E(1, 0, z, z, z)  >> >>

\* the 3x3 block of the near-zero case (first-order Taylor expansion)
TaylorBlock(num, den) ==
    LET rx == Rat(num[1], den)
        ry == Rat(num[2], den)
        rz == Rat(num[3], den)
        Neg(r) == Rat(-r.n, r.d)
    IN  << << One,     Neg(rz), ry      >>,
           << rz,      One,     Neg(rx) >>,
           << Neg(ry), rx,      One     >> >>

angle_axis_to_rotation_matrix_numpy(a) ==
    IF Rank(a) >= 2
    THEN \* np.dot of N-D arrays: the last axis against the second-to-last;
         \* then `if theta2 > eps` on an array of more than one element
         IF a.shape[Rank(a)] # a.shape[Rank(a) - 1]
         THEN Raise("ValueError", "shapes not aligned", "compute")
         ELSE IF Prod(a.shape) > 1
         THEN Raise("ValueError", "truth value of an array is ambiguous", "compute")
         ELSE Raise("IndexError", "index out of bounds", "compute")
    ELSE LET theta2 == Dot1(a.num, a.den)
         IN  IF Len(a.num) < 3
             THEN Raise("IndexError", "index out of bounds", "compute")
             ELSE IF GreaterThanEps(theta2, Float32EpsDen)
             THEN Ok(EmbedBlock(RodriguesBlock(a.num, a.den, theta2, Zero)))
             ELSE Ok(EmbedBlock(TaylorBlock(a.num, a.den)))

\* mutant: the divisor is theta, without the eps
TorchAxisGuard_NoEps == Zero

\* theta + eps, the divisor of line 217, as the eps added to theta
TorchAxisGuard == Rat(1, TorchEpsDen)

\* one batch element of angle_axis_to_rotation_matrix_torch
TorchAngleAxisElement(num, den) ==
    LET theta2   == Dot1(num, den)
        normal   == RodriguesBlock(num, den, theta2, TorchAxisGuard)
        taylor   == TaylorBlock(num, den)
        mask     == GreaterThanEps(theta2, TorchEpsDen)
        mask_pos == IF mask THEN 1 ELSE 0
        mask_neg == IF mask = FALSE THEN 1 ELSE 0
        block    == [i \in 1..3 |-> [j \in 1..3 |->
                        MaskAdd(MaskMul(mask_pos, normal[i][j]),
                                MaskMul(mask_neg, taylor[i][j]))]]
    IN  EmbedBlock(block)

angle_axis_to_rotation_matrix_torch(a) ==
    Ok([b \in 1..a.shape[1] |-> TorchAngleAxisElement(a.num[b], a.den)])

angle_axis_to_rotation_matrix(a) ==
    IF a.type = "ndarray" THEN angle_axis_to_rotation_matrix_numpy(a)
    ELSE IF a.type = "tensor"
    THEN IF ~(Rank(a) = 2 /\ a.shape[2] = 3)
         THEN Raise("ValueError", "Input must be a two dimensional torch.Tensor.", "entry")
         ELSE angle_axis_to_rotation_matrix_torch(a)
    ELSE Raise("NotImplementedError", a.type, "entry")

(***************************************************************************)
(* rtvec_to_pose                                                           *)
(***************************************************************************)
\* a[..., lo-1:hi] : the slice of the last axis, for arrays of rank 1 to 3
RECURSIVE SliceNum(_, _, _, _)
SliceNum(num, rank, lo, hi) ==
    IF rank = 1 THEN SubSeq(num, lo, hi)
    ELSE [i \in 1..Len(num) |-> SliceNum(num[i], rank - 1, lo, hi)]

SliceLast(a, lo, hi) ==
    [type  |-> a.type,
     shape |-> [i \in 1..Rank(a) |-> IF i = Rank(a) THEN hi - lo + 1 ELSE a.shape[i]],
     num   |-> SliceNum(a.num, Rank(a), lo, hi),
     den   |-> a.den]

\* mutant: pose[3, :3] = t, the bottom row instead of the last column
SetTranslation_Row(m, t, den) ==
    [i \in 1..4 |-> [j \in 1..4 |->
        IF i = 4 /\ j <= 3 THEN Rat(t[j], den) ELSE m[i][j]]]

\* pose[:3, 3] = t for one 4x4 matrix: rows 0..2 of column 3 and nothing else
SetTranslation(m, t, den) ==
    [i \in 1..4 |-> [j \in 1..4 |->
        IF i <= 3 /\ j = 4 THEN Rat(t[i], den) ELSE m[i][j]]]

rtvec_to_pose(rtvec) ==
    IF rtvec.type \notin {"ndarray", "tensor"}
    THEN Raise("AttributeError", "shape", "entry")
    ELSE IF LastDim(rtvec) # 6
    THEN Raise("AssertionError", "rtvec=[rx, ry, rz, tx, ty, tz]", "entry")
    ELSE LET pose == angle_axis_to_rotation_matrix(SliceLast(rtvec, 1, 3))
             t    == SliceLast(rtvec, 4, 6)
         IN  IF pose.kind # "ok" THEN pose
             ELSE IF rtvec.type = "ndarray"
             THEN Ok(SetTranslation(pose.value, t.num, t.den))
             ELSE Ok([b \in 1..rtvec.shape[1] |->
                         SetTranslation(pose.value[b], t.num[b], t.den)])

(***************************************************************************)
(* rotation_matrix_to_quaternion                                           *)
(***************************************************************************)
\* The quaternion u / sqrt(d) for integers u and d > 0, in normal form: u
\* divided by the gcd g of its components, d by g*g.  Two quaternions are
\* equal as vectors of reals iff their normal forms are equal.
Surd(u, d) ==
    LET RECURSIVE G(_)
        G(s) == IF s = <<>> THEN 0 ELSE GCD(Abs(Head(s)), G(Tail(s)))
        g == G(u)
        \* d / (g * g) in lowest terms, one factor g at a time
        g1 == GCD(d, g)
        g2 == GCD(d \div g1, g)
    IN  IF g = 0 THEN [k |-> "surd", u |-> u, d |-> One]
        ELSE [k |-> "surd", u |-> [i \in 1..Len(u) |-> u[i] \div g],
              d |-> Rat((d \div g1) \div g2, (g \div g1) * (g \div g2))]

\* x / sqrt(t) * 0.5 for every component x of u (numerators over den), t = tnum/den:
\* non-finite when t <= 0 (square root of a negative number, division by zero)
DivSqrtHalf(u, tnum, den) ==
    IF tnum <= 0 THEN NaN ELSE Surd(u, 4 * den * tnum)

\* quaternion /= np.linalg.norm(quaternion), the quaternion a positive multiple of u
Normalized(u) ==
    IF SumSq(u) = 0 THEN NaN ELSE Surd(u, SumSq(u))

rotation_matrix_to_quaternion_numpy(a) ==
    IF Rank(a) = 1
    THEN Raise("IndexError", "too many indices for array", "compute")
    ELSE IF a.shape[1] < 3 \/ a.shape[2] < 3
    THEN \* rotation_matrix[2, 2] indexes the first two axes
         Raise("IndexError", "index out of bounds", "compute")
    ELSE IF Rank(a) = 3
    THEN \* trace is an array (of more than one element): `if trace >= 0.0`
         Raise("ValueError", "truth value of an array is ambiguous", "compute")
    ELSE LET R(i, j) == a.num[i + 1][j + 1]
             trace   == R(0, 0) + R(1, 1) + R(2, 2)
         IN  IF trace >= 0
             THEN \* t = sqrt(trace + 1); the quaternion is 0.5 / t times
                  \* [trace + 1, R21 - R12, R02 - R20, R10 - R01]
                  Ok(Normalized(<< trace + a.den,
                                   R(2, 1) - R(1, 2),
                                   R(0, 2) - R(2, 0),
                                   R(1, 0) - R(0, 1) >>))
             ELSE LET i0 == IF R(1, 1) > R(0, 0) THEN 1 ELSE 0
                      i  == IF R(2, 2) > R(i0, i0) THEN 2 ELSE i0
                      j  == (i + 1) % 3
                      kk == (j + 1) % 3
                      t2 == R(i, i) - R(j, j) - R(kk, kk) + a.den
                      u  == [c \in 1..4 |->
                                IF c = i + 2 THEN t2
                                ELSE IF c = 1 THEN R(kk, j) - R(j, kk)
                                ELSE IF c = j + 2 THEN R(j, i) + R(i, j)
                                ELSE R(kk, i) + R(i, kk)]
                  IN  IF t2 <= 0 THEN Ok(NaN) ELSE Ok(Normalized(u))

\* mutant: the comparison of mask_d2 turned around
TorchMaskD2_Flipped(rt22, den) == IF rt22 * TorchEpsDen > den THEN 1 ELSE 0

\* mask_d2 = rmat_t[:, 2, 2] < eps, as 0/1
TorchMaskD2(rt22, den) == IF rt22 * TorchEpsDen < den THEN 1 ELSE 0

\* mutant: the comparison of mask_d0_d1 turned around
TorchMaskD0D1_Flipped(rt00, rt11) == IF rt00 < rt11 THEN 1 ELSE 0

\* mask_d0_d1 = rmat_t[:, 0, 0] > rmat_t[:, 1, 1]
TorchMaskD0D1(rt00, rt11) == IF rt00 > rt11 THEN 1 ELSE 0

\* mask_d0_nd1 = rmat_t[:, 0, 0] < -rmat_t[:, 1, 1]
TorchMaskD0ND1(rt00, rt11) == IF rt00 < -rt11 THEN 1 ELSE 0

\* The integer x rounded to float32, the default dtype of a tensor: 24
\* significant bits, to nearest, ties to the even significand.  Integers of
\* magnitude up to 2^24 are exact.
Float32(x) ==
    LET a == Abs(x)
        RECURSIVE Ulp(_)
        Ulp(u) == IF a \div u < 2^24 THEN u ELSE Ulp(2 * u)
        ulp  == Ulp(1)
        q    == a \div ulp
        r    == a % ulp
        up   == 2 * r > ulp \/ (2 * r = ulp /\ q % 2 = 1)
        near == IF up THEN (q + 1) * ulp ELSE q * ulp
    IN  IF x < 0 THEN -near ELSE near

\* the result of one + or - of the pivot sums: rounded when the operands are
\* integers (den = 1, every operand a float32), exact when they are fractions
RoundedSum(x, den) == IF den = 1 THEN Float32(x) ELSE x

\* the four pivots t0..t3 (numerators over den) of one batch element, each
\* summed from left to right as written
TorchPivots(m, den) ==
    LET rt(i, j)    == m[j + 1][i + 1]
        F(x)        == RoundedSum(x, den)
    IN  << F(F(F(den + rt(0, 0)) - rt(1, 1)) - rt(2, 2)),
           F(F(F(den - rt(0, 0)) + rt(1, 1)) - rt(2, 2)),
           F(F(F(den - rt(0, 0)) - rt(1, 1)) + rt(2, 2)),
           F(F(F(den + rt(0, 0)) + rt(1, 1)) + rt(2, 2)) >>

\* mutant: q0 and q3 take the sum where the difference belongs
TorchCandidates_SignSlip(m, den) ==
    LET rt(i, j) == m[j + 1][i + 1]
        t        == << den + rt(0, 0) - rt(1, 1) - rt(2, 2),
                       den - rt(0, 0) + rt(1, 1) - rt(2, 2),
                       den - rt(0, 0) - rt(1, 1) + rt(2, 2),
                       den + rt(0, 0) + rt(1, 1) + rt(2, 2) >>
    IN  << << rt(1, 2) + rt(2, 1), t[1], rt(0, 1) + rt(1, 0), rt(2, 0) + rt(0, 2) >>,
           << rt(2, 0) - rt(0, 2), rt(0, 1) + rt(1, 0), t[2], rt(1, 2) + rt(2, 1) >>,
           << rt(0, 1) - rt(1, 0), rt(2, 0) + rt(0, 2), rt(1, 2) + rt(2, 1), t[3] >>,
           << t[4], rt(1, 2) + rt(2, 1), rt(2, 0) - rt(0, 2), rt(0, 1) - rt(1, 0) >> >>

\* the four candidate quaternions q0..q3 (numerators over den)
TorchCandidates(m, den) ==
    LET rt(i, j) == m[j + 1][i + 1]
        t        == TorchPivots(m, den)
    IN  << << rt(1, 2) - rt(2, 1), t[1], rt(0, 1) + rt(1, 0), rt(2, 0) + rt(0, 2) >>,
           << rt(2, 0) - rt(0, 2), rt(0, 1) + rt(1, 0), t[2], rt(1, 2) + rt(2, 1) >>,
           << rt(0, 1) - rt(1, 0), rt(2, 0) + rt(0, 2), rt(1, 2) + rt(2, 1), t[3] >>,
           << t[4], rt(1, 2) - rt(2, 1), rt(2, 0) - rt(0, 2), rt(0, 1) - rt(1, 0) >> >>

\* mutant: mask_c1 without its factor (1 - mask_d0_d1)
TorchCaseMasks_Overlap(m, den) ==
    LET rt(i, j)    == m[j + 1][i + 1]
        mask_d2     == TorchMaskD2(rt(2, 2), den)
        mask_d0_d1  == TorchMaskD0D1(rt(0, 0), rt(1, 1))
        mask_d0_nd1 == TorchMaskD0ND1(rt(0, 0), rt(1, 1))
    IN  << mask_d2 * mask_d0_d1,
           mask_d2,
           (1 - mask_d2) * mask_d0_nd1,
           (1 - mask_d2) * (1 - mask_d0_nd1) >>

\* mask_c0..mask_c3 of one batch element, as 0/1
TorchCaseMasks(m, den) ==
    LET rt(i, j)    == m[j + 1][i + 1]
        mask_d2     == TorchMaskD2(rt(2, 2), den)
        mask_d0_d1  == TorchMaskD0D1(rt(0, 0), rt(1, 1))
        mask_d0_nd1 == TorchMaskD0ND1(rt(0, 0), rt(1, 1))
    IN  << mask_d2 * mask_d0_d1,
           mask_d2 * (1 - mask_d0_d1),
           (1 - mask_d2) * mask_d0_nd1,
           (1 - mask_d2) * (1 - mask_d0_nd1) >>

\* q0 * mask_c0 + q1 * mask_c1 + q2 * mask_c2 + q3 * mask_c3
TorchSelectedNumerators(m, den) ==
    LET q == TorchCandidates(m, den)
        c == TorchCaseMasks(m, den)
    IN  [i \in 1..4 |-> q[1][i] * c[1] + q[2][i] * c[2] + q[3][i] * c[3] + q[4][i] * c[4]]

\* t0 * mask_c0 + t1 * mask_c1 + t2 * mask_c2 + t3 * mask_c3
TorchSelectedPivot(m, den) ==
    LET t == TorchPivots(m, den)
        c == TorchCaseMasks(m, den)
    IN  t[1] * c[1] + t[2] * c[2] + t[3] * c[3] + t[4] * c[4]

\* one batch element of rotation_matrix_to_quaternion_torch
TorchQuaternionElement(m, den) ==
    DivSqrtHalf(TorchSelectedNumerators(m, den), TorchSelectedPivot(m, den), den)

rotation_matrix_to_quaternion_torch(a) ==
    \* rmat_t has shape (N, a.shape[2], a.shape[1]) and is indexed up to [2, 2]
    IF a.shape[2] < 3 \/ a.shape[3] < 3
    THEN Raise("IndexError", "index out of range", "compute")
    ELSE Ok([b \in 1..a.shape[1] |-> TorchQuaternionElement(a.num[b], a.den)])

rotation_matrix_to_quaternion(a) ==
    IF a.type = "ndarray" THEN rotation_matrix_to_quaternion_numpy(a)
    ELSE IF a.type = "tensor"
    THEN IF ~(Rank(a) = 3 /\ a.shape[2] = 4)
         THEN Raise("ValueError", "Input must be a three dimensional torch.Tensor.", "entry")
         ELSE rotation_matrix_to_quaternion_torch(a)
    ELSE Raise("NotImplementedError", a.type, "entry")

(***************************************************************************)
(* quaternion_to_angle_axis                                                *)
(***************************************************************************)
\* atan2(y, x) for y = ysgn * sqrt(s2 / n), s2 > 0, and x = xnum / sqrt(n), in
\* normal form: the sign of y, the quadrant of |theta| ("acute": x > 0,
\* "right": x = 0, "obtuse": x < 0) and tan^2 of the acute angle to the x axis.
\* |theta| is arctan(sqrt(tan2)), pi/2 or pi - arctan(sqrt(tan2)): two angles
\* are equal iff their normal forms are.
Atan2(ysgn, s2, xnum) ==
    [sgn  |-> ysgn,
     quad |-> IF xnum > 0 THEN "acute" ELSE IF xnum < 0 THEN "obtuse" ELSE "right",
     tan2 |-> IF xnum = 0 THEN Zero ELSE Rat(s2, xnum * xnum)]

\* two_theta / sin_theta: 0/0 or x/0 when sin_theta = 0
TwoThetaOverSin(theta, s2) ==
    IF s2 = 0 THEN NaN ELSE [k |-> "theta", theta |-> theta]

\* (q1 * k, q2 * k, q3 * k) for q = u / sqrt(n), n > 0, the vector part of u:
\*   k rational:  the vector k * u / sqrt(n)  ("lin");
\*   k = 2 theta / sin theta, sin theta = sqrt(s2 / n): the unit vector
\*     sgn(theta) * u / sqrt(s2) scaled by 2 |theta|  ("ang").
\* Equal vectors of reals have equal records.
ScaleByK(u, n, s2, kk) ==
    LET v == <<u[2], u[3], u[4]>>
    IN  IF kk.k = "nan" THEN NaN
        ELSE IF kk.k = "rat"
        THEN [k |-> "lin", dir |-> Surd([i \in 1..3 |-> kk.n * v[i]], n * kk.d * kk.d)]
        ELSE [k |-> "ang", quad |-> kk.theta.quad, tan2 |-> kk.theta.tan2,
              dir |-> Surd([i \in 1..3 |-> kk.theta.sgn * v[i]], s2)]

\* sin_squared of the normalised quaternion is s2 / n
VectorSumSq(u) == u[2] * u[2] + u[3] * u[3] + u[4] * u[4]

\* the numpy implementation on a quaternion that is a positive multiple of u
NumpyQuaternionCore(u) ==
    LET n  == SumSq(u)
        s2 == VectorSumSq(u)
    IN  IF n = 0 THEN NaN    \* normalizer = 1 / 0
        ELSE IF s2 > 0
        THEN LET theta == IF u[1] < 0 THEN Atan2(-1, s2, -u[1])
                                      ELSE Atan2(1, s2, u[1])
             IN  ScaleByK(u, n, s2, TwoThetaOverSin(theta, s2))
        ELSE ScaleByK(u, n, s2, Rat(2, 1))

quaternion_to_angle_axis_numpy(a) ==
    IF LastDim(a) # 4
    THEN Raise("AssertionError", "Input must be a vector of length 4", "entry")
    ELSE IF Rank(a) >= 2
    THEN \* quaternion[3] indexes the first axis; sin_squared is then an array
         IF a.shape[1] < 4
         THEN Raise("IndexError", "index out of bounds", "compute")
         ELSE Raise("ValueError", "truth value of an array is ambiguous", "compute")
    ELSE Ok(NumpyQuaternionCore(a.num))

\* cos_theta < eps for cos_theta = w / sqrt(n), n > 0
CosLessThanEps(w, n) ==
    \/ w <= 0
    \/ w * TorchEpsDen <= (n - 1) \div (w * TorchEpsDen)

\* mask = sin_squared > eps for sin_squared = s2 / n
TorchSinMask(s2, n) == s2 * TorchEpsDen > n

\* one batch element of quaternion_to_angle_axis_torch
TorchQuaternionCore(u) ==
    LET n  == SumSq(u)
        s2 == VectorSumSq(u)
    IN  IF n = 0 THEN NaN    \* normalizer = 1 / 0
        ELSE LET mask       == TorchSinMask(s2, n)
                 mask_pos   == IF mask = TRUE THEN 1 ELSE 0
                 mask_neg   == IF mask = FALSE THEN 1 ELSE 0
                 mask_theta == CosLessThanEps(u[1], n)
                 \* both atan2 are finite, so the masked sum is the selected one
                 theta      == IF mask_theta THEN Atan2(-1, s2, -u[1])
                                             ELSE Atan2(1, s2, u[1])
                 k_pos      == TwoThetaOverSin(theta, s2)
                 k_neg      == Rat(2, 1)
                 kk         == MaskAdd(MaskMul(mask_neg, k_neg), MaskMul(mask_pos, k_pos))
             IN  ScaleByK(u, n, s2, kk)

quaternion_to_angle_axis_torch(a) ==
    Ok([b \in 1..a.shape[1] |-> TorchQuaternionCore(a.num[b])])

quaternion_to_angle_axis(a) ==
    IF a.type = "ndarray" THEN quaternion_to_angle_axis_numpy(a)
    ELSE IF a.type = "tensor"
    THEN IF ~(Rank(a) = 2 /\ a.shape[2] = 4)
         THEN Raise("ValueError", "Input must be a two dimensional torch.Tensor.", "entry")
         ELSE quaternion_to_angle_axis_torch(a)
    ELSE \* the message formats type(rotation_matrix), a name not defined here
         Raise("NameError", "rotation_matrix", "entry")

(***************************************************************************)
(* rotation_matrix_to_angle_axis                                           *)
(***************************************************************************)
\* quaternion_to_angle_axis on the array that rotation_matrix_to_quaternion
\* returned: a quaternion u / sqrt(d) is a positive multiple of u, and a
\* non-finite quaternion has a non-finite norm, so that every component of
\* its axis-angle vector is non-finite
QuaternionResultToAngleAxis(type, value) ==
    IF type = "ndarray"
    THEN \* shape (4,): the assert of the numpy implementation passes
         IF value.k = "nan" THEN Ok(NaN)
         ELSE quaternion_to_angle_axis(
                  [type |-> "ndarray", shape |-> <<4>>, num |-> value.u, den |-> 1])
    ELSE \* shape (N, 4): the shape check of the dispatcher passes
         Ok([b \in 1..Len(value) |->
                IF value[b].k = "nan" THEN NaN ELSE TorchQuaternionCore(value[b].u)])

rotation_matrix_to_angle_axis(a) ==
    LET quaternion == rotation_matrix_to_quaternion(a)
    IN  IF quaternion.kind = "raise" THEN quaternion
        ELSE QuaternionResultToAngleAxis(a.type, quaternion.value)

(***************************************************************************)
(* layer api: the nn.Module wrappers of the five conversions               *)
(***************************************************************************)
LayerClasses ==
    {"AngleAxisToRotationMatrix", "RotationMatrixToAngleAxis",
     "RotationMatrixToQuaternion", "QuaternionToAngleAxis", "RtvecToPose"}

\* __init__: super(<class>, self).__init__().  RotationMatrixToQuaternion
\* names RotationMatrixToQuaterion there, which the module does not define.
LayerInit(class) ==
    IF class = "RotationMatrixToQuaternion"
    THEN Raise("NameError", "RotationMatrixToQuaterion", "__init__")
    ELSE Ok([k |-> "module", class |-> class])

\* forward(input): the function each class calls, by the name written there.
\* rotation_matrix_to_quaterion and quaterion_to_angle_axis are not defined.
LayerForward(class, input) ==
    CASE class = "AngleAxisToRotationMatrix" -> angle_axis_to_rotation_matrix(input)
      [] class = "RotationMatrixToAngleAxis" -> rotation_matrix_to_angle_axis(input)
      [] class = "RotationMatrixToQuaternion" ->
             Raise("NameError", "rotation_matrix_to_quaterion", "forward")
      [] class = "QuaternionToAngleAxis" ->
             Raise("NameError", "quaterion_to_angle_axis", "forward")
      [] class = "RtvecToPose" -> rtvec_to_pose(input)

(***************************************************************************)
(* The inputs the entry points are called with.                            *)
(***************************************************************************)
NdArray(shape, num, den) == [type |-> "ndarray", shape |-> shape, num |-> num, den |-> den]

Tensor(shape, num, den) == [type |-> "tensor", shape |-> shape, num |-> num, den |-> den]

\* an argument that is neither a numpy array nor a torch tensor
OtherTypes == {"list", "tuple", "NoneType"}

Other(t) == [type |-> t, shape |-> <<>>, num |-> <<>>, den |-> 1]

NoArg == [type |-> "none", shape |-> <<>>, num |-> <<>>, den |-> 1]

Copies(x, n) == [i \in 1..n |-> x]

\* batched tensors over the elements E (each of shape rowshape): N copies of
\* an element, and an element followed by a probe element from P
Batches(E, P, rowshape, den) ==
    {Tensor(<<n>> \o rowshape, Copies(x, n), den) : x \in E, n \in 1..MaxBatch}
    \cup {Tensor(<<2>> \o rowshape, <<x, p>>, den) : x \in E, p \in P}

\* arrays of assorted shapes, filled with zeros or with ones on the diagonal
\* of the last two axes (the first component, for a vector)
PoolShapes ==
    { <<2>>, <<3>>, <<4>>, <<5>>, <<6>>,
      <<1, 3>>, <<2, 3>>, <<3, 3>>, <<2, 4>>, <<4, 4>>, <<2, 6>>, <<4, 5>>, <<5, 5>>,
      <<1, 2, 3>>, <<1, 2, 4>>, <<1, 2, 6>>, <<2, 3, 3>>, <<2, 4, 2>>, <<2, 4, 3>>,
      <<2, 4, 4>>, <<2, 4, 5>>, <<3, 3, 3>>, <<4, 4, 4>> }

Filled(shape, diag) ==
    IF Len(shape) = 1
    THEN [i \in 1..shape[1] |-> IF diag /\ i = 1 THEN 1 ELSE 0]
    ELSE IF Len(shape) = 2
    THEN [i \in 1..shape[1] |-> [j \in 1..shape[2] |-> IF diag /\ i = j THEN 1 ELSE 0]]
    ELSE [b \in 1..shape[1] |-> [i \in 1..shape[2] |-> [j \in 1..shape[3] |->
             IF diag /\ i = j THEN 1 ELSE 0]]]

Pool ==
    {NdArray(sh, Filled(sh, dg), 1) : sh \in PoolShapes, dg \in BOOLEAN}
    \cup {Tensor(sh, Filled(sh, dg), 1) : sh \in PoolShapes, dg \in BOOLEAN}
    \cup {Other(t) : t \in OtherTypes}

\* axis-angle vectors num/den: rotations of about a radian (den = 1) and
\* rotations around the two thresholds 2^-23 and 1e-6 of theta^2 (den = 10000)
AngleAxisDens == {1, 10000}

AngleAxisVectors == {<<x, y, z>> : x \in -MaxAA..MaxAA, y \in -MaxAA..MaxAA, z \in -MaxAA..MaxAA}

AngleAxisArgs ==
    UNION {
        {NdArray(<<3>>, v, d) : v \in AngleAxisVectors}
        \cup Batches(AngleAxisVectors, {<<0, 0, 0>>, <<1, 0, 0>>}, <<3>>, d)
        : d \in AngleAxisDens }
    \cup Pool

\* rtvec = (rotation about one coordinate axis, translation)
AxisAlignedVectors ==
    {v \in AngleAxisVectors : Cardinality({i \in 1..3 : v[i] # 0}) <= 1}

Translations == {<<x, y, z>> : x \in 0..MaxTrans, y \in 0..MaxTrans, z \in 0..MaxTrans}

Rtvecs == {r \o t : r \in AxisAlignedVectors, t \in Translations}

RtvecArgs ==
    UNION {
        {NdArray(<<6>>, v, d) : v \in Rtvecs}
        \cup Batches(Rtvecs, {}, <<6>>, d)
        : d \in AngleAxisDens }
    \cup Pool

\* the rotation matrix of the integer quaternion (w, x, y, z), not all zero, as
\* a 4x4 homogeneous matrix of integers over one denominator, in lowest terms
RotationOf(q) ==
    LET w == q[1]
        x == q[2]
        y == q[3]
        z == q[4]
        n == SumSq(q)
        m == << << w*w + x*x - y*y - z*z, 2*(x*y - w*z), 2*(x*z + w*y), 0 >>,
                << 2*(x*y + w*z), w*w - x*x + y*y - z*z, 2*(y*z - w*x), 0 >>,
                << 2*(x*z - w*y), 2*(y*z + w*x), w*w - x*x - y*y + z*z, 0 >>,
                << 0, 0, 0, n >> >>
        g == GCD(GCD(GCD(Abs(m[1][1]), Abs(m[1][2])), GCD(Abs(m[1][3]), Abs(m[2][1]))),
                 GCD(GCD(GCD(Abs(m[2][2]), Abs(m[2][3])), GCD(Abs(m[3][1]), Abs(m[3][2]))),
                     GCD(Abs(m[3][3]), n)))
    IN  [num |-> [i \in 1..4 |-> [j \in 1..4 |-> m[i][j] \div g]], den |-> n \div g]

IntQuaternions(bound) ==
    {<<w, x, y, z>> : w \in -bound..bound, x \in -bound..bound,
                      y \in -bound..bound, z \in -bound..bound} \ {<<0, 0, 0, 0>>}

Rotations == {RotationOf(q) : q \in IntQuaternions(MaxCoord)}

\* diagonal matrices, most of them no rotations
DiagonalOf(a, b, c) ==
    [num |-> << <<a, 0, 0, 0>>, <<0, b, 0, 0>>, <<0, 0, c, 0>>, <<0, 0, 0, 1>> >>, den |-> 1]

Diagonals == {DiagonalOf(a, b, c) : a \in -1..1, b \in -1..1, c \in -1..1}

Identity4 == DiagonalOf(1, 1, 1)

Matrices == Rotations \cup Diagonals

\* finite matrices of large entries: in float32, 1 + 2^26 = 2^26
LargeEntry == 2^26

LargeDiagonals == {DiagonalOf(LargeEntry, LargeEntry, 0), DiagonalOf(-LargeEntry, -LargeEntry, 0)}

RotationMatrixArgs ==
    {NdArray(<<4, 4>>, m.num, m.den) : m \in Matrices}
    \cup {Tensor(<<n, 4, 4>>, Copies(m.num, n), m.den) : m \in Matrices, n \in 1..MaxBatch}
    \cup {Tensor(<<2, 4, 4>>, <<m.num, Identity4.num>>, 1) : m \in Diagonals \cup LargeDiagonals}
    \cup {Tensor(<<1, 4, 4>>, <<m.num>>, 1) : m \in LargeDiagonals}
    \cup Pool

\* quaternions: small integer vectors, and two antipodal pairs a rotation of
\* about 2e-3 rad and 2e-2 rad away from the identity
NearIdentityQuaternions ==
    {<<1000, 1, 0, 0>>, <<-1000, -1, 0, 0>>, <<100, 0, 1, 0>>, <<-100, 0, -1, 0>>}

Quaternions == (IntQuaternions(MaxQCoord) \cup {<<0, 0, 0, 0>>}) \cup NearIdentityQuaternions

QuaternionArgs ==
    {NdArray(<<4>>, q, 1) : q \in Quaternions}
    \cup Batches(Quaternions, {<<1, 0, 0, 0>>}, <<4>>, 1)
    \cup Pool

\* No statement of the four entry points stores into its argument: the
\* slices of rtvec are only read, pose and the quaternion are fresh arrays.
InputAfterCall(a) == a

(***************************************************************************)
(* The state machine: one call of one entry point on one argument, or the   *)
(* construction of one layer and one call of its forward.                  *)
(***************************************************************************)
Init ==
    /\ pc = "idle"
    /\ fn = "none"
    /\ arg = NoArg
    /\ argAfter = NoArg
    /\ out = NoResult

Call_angle_axis_to_rotation_matrix ==
    /\ pc = "idle"
    /\ \E a \in AngleAxisArgs :
          /\ arg' = a
          /\ argAfter' = InputAfterCall(a)
          /\ out' = angle_axis_to_rotation_matrix(a)
    /\ fn' = "angle_axis_to_rotation_matrix"
    /\ pc' = "returned"

Call_rtvec_to_pose ==
    /\ pc = "idle"
    /\ \E a \in RtvecArgs :
          /\ arg' = a
          /\ argAfter' = InputAfterCall(a)
          /\ out' = rtvec_to_pose(a)
    /\ fn' = "rtvec_to_pose"
    /\ pc' = "returned"

Call_rotation_matrix_to_quaternion ==
    /\ pc = "idle"
    /\ \E a \in RotationMatrixArgs :
          /\ arg' = a
          /\ argAfter' = InputAfterCall(a)
          /\ out' = rotation_matrix_to_quaternion(a)
    /\ fn' = "rotation_matrix_to_quaternion"
    /\ pc' = "returned"

Call_quaternion_to_angle_axis ==
    /\ pc = "idle"
    /\ \E a \in QuaternionArgs :
          /\ arg' = a
          /\ argAfter' = InputAfterCall(a)
          /\ out' = quaternion_to_angle_axis(a)
    /\ fn' = "quaternion_to_angle_axis"
    /\ pc' = "returned"

\* the arguments a layer is given: those of the function it stands for
LayerArgs(class) ==
    CASE class = "AngleAxisToRotationMatrix" -> AngleAxisArgs
      [] class = "RotationMatrixToAngleAxis" -> RotationMatrixArgs
      [] class = "RotationMatrixToQuaternion" -> RotationMatrixArgs
      [] class = "QuaternionToAngleAxis" -> QuaternionArgs
      [] class = "RtvecToPose" -> RtvecArgs

\* layer = <class>(): on success the program holds the module ("constructed"),
\* otherwise the constructor call has returned with the exception
Construct_Layer ==
    /\ pc = "idle"
    /\ \E class \in LayerClasses :
          /\ fn' = class
          /\ out' = LayerInit(class)
          /\ pc' = IF LayerInit(class).kind = "ok" THEN "constructed" ELSE "returned"
    /\ UNCHANGED <<arg, argAfter>>

\* layer(input) on the module constructed before
Call_forward ==
    /\ pc = "constructed"
    /\ \E a \in LayerArgs(fn) :
          /\ arg' = a
          /\ argAfter' = InputAfterCall(a)
          /\ out' = LayerForward(fn, a)
    /\ pc' = "forwarded"
    /\ UNCHANGED fn

Next ==
    \/ Call_angle_axis_to_rotation_matrix
    \/ Call_rtvec_to_pose
    \/ Call_rotation_matrix_to_quaternion
    \/ Call_quaternion_to_angle_axis
    \/ Construct_Layer
    \/ Call_forward

Spec == Init /\ [][Next]_vars

(***************************************************************************)
(* Vocabulary of the properties.                                           *)
(***************************************************************************)
Returned(f) == pc = "returned" /\ fn = f

DualPathEntryPoints ==
    {"angle_axis_to_rotation_matrix", "rotation_matrix_to_quaternion",
     "quaternion_to_angle_axis"}

IsArray(a) == a.type \in {"ndarray", "tensor"}

\* the shapes of section 6 of the design: vec3 | batch[N,3], mat4 (or 3x3) |
\* batch[N,4,4] (or [N,3,3]), vec4 | batch[N,4], vec6 | batch[N,6]
TrailingShape(a, k) == SubSeq(a.shape, Len(a.shape) - k + 1, Len(a.shape))

ValidShape(f, a) ==
    LET unbatched == IF a.type = "ndarray" THEN 0 ELSE 1
    IN  IF f = "rotation_matrix_to_quaternion"
        THEN /\ Rank(a) = 2 + unbatched
             /\ TrailingShape(a, 2) \in {<<4, 4>>, <<3, 3>>}
        ELSE /\ Rank(a) = 1 + unbatched
             /\ LastDim(a) = (CASE f = "angle_axis_to_rotation_matrix" -> 3
                                [] f = "quaternion_to_angle_axis" -> 4
                                [] f = "rtvec_to_pose" -> 6)

IdentityValue == [i \in 1..4 |-> [j \in 1..4 |-> IF i = j THEN One ELSE Zero]]

IsZeroVector(v) == \A i \in 1..Len(v) : v[i] = 0

\* m / den is the identity matrix
IsIdentityMatrix(m, den) ==
    \A i \in 1..Len(m) : \A j \in 1..Len(m[i]) : m[i][j] = (IF i = j THEN den ELSE 0)

\* the top-left 3x3 block of m / den is orthonormal with determinant +1
\* (no entry of such a block exceeds 1 in magnitude)
IsRotation(m, den) ==
    /\ \A i \in 1..3 : \A j \in 1..3 : Abs(m[i][j]) <= den
    /\ \A i \in 1..3 : \A j \in 1..3 :
          m[i][1] * m[j][1] + m[i][2] * m[j][2] + m[i][3] * m[j][3]
              = (IF i = j THEN den * den ELSE 0)
    /\   m[1][1] * (m[2][2] * m[3][3] - m[2][3] * m[3][2])
       - m[1][2] * (m[2][1] * m[3][3] - m[2][3] * m[3][1])
       + m[1][3] * (m[2][1] * m[3][2] - m[2][2] * m[3][1])
       = den * den * den

\* the quaternion u / sqrt(d) has norm 1
IsUnitSurd(q) == q.k = "surd" /\ q.d = Rat(SumSq(q.u), 1)

UnitW == [k |-> "surd", u |-> <<1, 0, 0, 0>>, d |-> One]

(***************************************************************************)
(* C1.  Each of the three dual-path entry points, called with an argument  *)
(* that is neither a numpy array nor a torch tensor, raises                *)
(* NotImplementedError with a message naming the type of the argument, and *)
(* no other kind of error.                                                 *)
(* Violated: quaternion_to_angle_axis formats type(rotation_matrix), an    *)
(* undefined name, and raises NameError instead.                           *)
(***************************************************************************)
C1_UnsupportedTypeError ==
    (pc = "returned" /\ fn \in DualPathEntryPoints /\ ~IsArray(arg))
        => (out.kind = "raise" /\ out.exc = "NotImplementedError" /\ out.about = arg.type)

(***************************************************************************)
(* C2.  Every conversion entry point, on the numpy and on the tensor path, *)
(* rejects an input of wrong rank or wrong trailing dimension with an      *)
(* error raised at entry; no input of a wrong shape yields a returned      *)
(* result.                                                                 *)
(* Violated: the numpy implementations check no shape (a 4-vector is       *)
(* converted as an axis-angle vector, a 5x5 array as a rotation matrix),   *)
(* and the tensor check of rotation_matrix_to_quaternion reads shape[1]    *)
(* only, so an (N, 4, 5) tensor is converted.                              *)
(***************************************************************************)
C2_WrongShapeNeverReturns ==
    (pc = "returned" /\ IsArray(arg) /\ ~ValidShape(fn, arg))
        => out.kind = "raise"

(***************************************************************************)
(* C3.  On a tensor, rotation_matrix_to_quaternion accepts a batch of N    *)
(* 4x4 matrices and a batch of N 3x3 matrices, returning N quaternions,    *)
(* and fails with a shape error for every input that is not 3-D or whose   *)
(* trailing shape is neither 4x4 nor 3x3.                                  *)
(* Violated: an (N, 3, 3) tensor is rejected, (N, 4, 5) and (N, 4, 3)      *)
(* tensors are accepted.                                                   *)
(***************************************************************************)
C3_TensorShapesAccepted ==
    (Returned("rotation_matrix_to_quaternion") /\ arg.type = "tensor")
        => IF Rank(arg) = 3 /\ TrailingShape(arg, 2) \in {<<4, 4>>, <<3, 3>>}
           THEN out.kind = "ok" /\ Len(out.value) = arg.shape[1]
           ELSE out.kind = "raise" /\ out.exc = "ValueError"

(***************************************************************************)
(* C4.  angle_axis_to_rotation_matrix maps the zero vector to exactly the  *)
(* 4x4 identity matrix: on the numpy path, and for every zero element of a *)
(* batch on the tensor path.                                               *)
(***************************************************************************)
C4_ZeroVectorGivesIdentity ==
    Returned("angle_axis_to_rotation_matrix") =>
        /\ (arg.type = "ndarray" /\ arg.shape = <<3>> /\ IsZeroVector(arg.num))
              => out = Ok(IdentityValue)
        /\ (arg.type = "tensor" /\ Rank(arg) = 2 /\ arg.shape[2] = 3)
              => /\ out.kind = "ok"
                 /\ \A b \in 1..arg.shape[1] :
                       IsZeroVector(arg.num[b]) => out.value[b] = IdentityValue

\* a batch of two zero vectors has been converted, and so has a zero array
C4_Witness ==
    /\ Returned("angle_axis_to_rotation_matrix")
    /\ arg.type = "tensor" /\ arg.shape = <<2, 3>>
    /\ IsZeroVector(arg.num[1]) /\ IsZeroVector(arg.num[2])
    /\ out.kind = "ok" /\ Len(out.value) = 2

(***************************************************************************)
(* C5.  rotation_matrix_to_quaternion maps the 4x4 identity matrix to the  *)
(* scalar-first quaternion [1, 0, 0, 0] on the numpy path and on the       *)
(* tensor path, where branch 3 is the one selected, with pivot t3 = 4.     *)
(***************************************************************************)
C5_IdentityGivesUnitW ==
    Returned("rotation_matrix_to_quaternion") =>
        /\ (arg.type = "ndarray" /\ arg.shape = <<4, 4>> /\ IsIdentityMatrix(arg.num, arg.den))
              => out = Ok(UnitW)
        /\ (arg.type = "tensor" /\ Rank(arg) = 3 /\ TrailingShape(arg, 2) = <<4, 4>>)
              => /\ out.kind = "ok"
                 /\ \A b \in 1..arg.shape[1] :
                       IsIdentityMatrix(arg.num[b], arg.den)
                          => /\ out.value[b] = UnitW
                             /\ TorchCaseMasks(arg.num[b], arg.den) = <<0, 0, 0, 1>>
                             /\ TorchSelectedPivot(arg.num[b], arg.den) = 4 * arg.den

\* a batch of two identity matrices has been converted
C5_Witness ==
    /\ Returned("rotation_matrix_to_quaternion")
    /\ arg.type = "tensor" /\ arg.shape = <<2, 4, 4>>
    /\ IsIdentityMatrix(arg.num[1], arg.den) /\ IsIdentityMatrix(arg.num[2], arg.den)
    /\ out.kind = "ok" /\ out.value[2] = UnitW

(***************************************************************************)
(* C6.  For every valid rotation matrix the quaternion returned by         *)
(* rotation_matrix_to_quaternion has unit norm.  On the tensor path the    *)
(* selected pivot t is positive and the squares of the four selected       *)
(* numerators sum to 4 t, so 0.5 * numerators / sqrt(t) has norm 1.        *)
(* (Numerators u and pivot t are integers over arg.den: the identity       *)
(* sum (u/den)^2 = 4 t/den reads SumSq(u) = 4 t den.)                      *)
(***************************************************************************)
C6_UnitNorm ==
    Returned("rotation_matrix_to_quaternion") =>
        /\ (arg.type = "ndarray" /\ arg.shape = <<4, 4>> /\ IsRotation(arg.num, arg.den))
              => out.kind = "ok" /\ IsUnitSurd(out.value)
        /\ (arg.type = "tensor" /\ Rank(arg) = 3 /\ TrailingShape(arg, 2) = <<4, 4>>)
              => /\ out.kind = "ok"
                 /\ \A b \in 1..arg.shape[1] :
                       IsRotation(arg.num[b], arg.den) =>
                          LET u == TorchSelectedNumerators(arg.num[b], arg.den)
                              t == TorchSelectedPivot(arg.num[b], arg.den)
                          IN  /\ t > 0
                              /\ SumSq(u) = 4 * t * arg.den
                              /\ IsUnitSurd(out.value[b])

\* a rotation that is not the identity has been converted through branch 0
C6_Witness ==
    /\ Returned("rotation_matrix_to_quaternion")
    /\ arg.type = "tensor" /\ arg.shape = <<2, 4, 4>>
    /\ IsRotation(arg.num[1], arg.den)
    /\ TorchCaseMasks(arg.num[1], arg.den) = <<1, 0, 0, 0>>
    /\ arg.num[1][2][1] # 0
    /\ out.kind = "ok" /\ IsUnitSurd(out.value[1])

(***************************************************************************)
(* C7.  rtvec_to_pose([rx,ry,rz,tx,ty,tz]) is the matrix of                *)
(* angle_axis_to_rotation_matrix([rx,ry,rz]) with entries (0,3), (1,3),    *)
(* (2,3) replaced by tx, ty, tz and nothing else changed: the rotation     *)
(* block is kept, the bottom row is [0,0,0,1], the input is not modified;  *)
(* rtvec_to_pose([0,0,0,1,2,3]) is the identity rotation with translation  *)
(* column [1,2,3].                                                         *)
(***************************************************************************)
PoseFrame(pose, rot, t, den) ==
    /\ \A i \in 1..3 : pose[i][4] = Rat(t[i], den)
    /\ \A i \in 1..3 : \A j \in 1..3 : pose[i][j] = rot[i][j]
    /\ pose[4] = <<Zero, Zero, Zero, One>>
    /\ rot[4] = <<Zero, Zero, Zero, One>>

C7_PoseIsRotationWithTranslationColumn ==
    Returned("rtvec_to_pose") =>
        /\ argAfter = arg
        /\ (IsArray(arg) /\ ValidShape("rtvec_to_pose", arg)) =>
              LET rot == angle_axis_to_rotation_matrix(SliceLast(arg, 1, 3))
              IN  /\ out.kind = "ok" /\ rot.kind = "ok"
                  /\ arg.type = "ndarray" =>
                        PoseFrame(out.value, rot.value, SubSeq(arg.num, 4, 6), arg.den)
                  /\ arg.type = "tensor" =>
                        /\ Len(out.value) = arg.shape[1]
                        /\ \A b \in 1..arg.shape[1] :
                              PoseFrame(out.value[b], rot.value[b],
                                        SubSeq(arg.num[b], 4, 6), arg.den)
        /\ (IsArray(arg) /\ arg.shape = <<6>> /\ arg.num = <<0, 0, 0, 1, 2, 3>> /\ arg.den = 1) =>
              out = Ok(<< <<One, Zero, Zero, Rat(1, 1)>>,
                          <<Zero, One, Zero, Rat(2, 1)>>,
                          <<Zero, Zero, One, Rat(3, 1)>>,
                          <<Zero, Zero, Zero, One>> >>)

\* a batch of two poses with a rotation of one radian about x and the
\* translation (1, 2, 3) has been composed
C7_Witness ==
    /\ Returned("rtvec_to_pose")
    /\ arg.type = "tensor" /\ arg.shape = <<2, 6>> /\ arg.den = 1
    /\ arg.num[1] = <<1, 0, 0, 1, 2, 3>>
    /\ out.kind = "ok"
    /\ out.value[1][2][3].k = "rod"
    /\ out.value[1][3][4] = Rat(3, 1)

(***************************************************************************)
(* C8.  For each converter and every valid input x, the tensor             *)
(* implementation on a batch of N copies of x returns N outputs, each      *)
(* equal to the output of the numpy implementation on x.                   *)
(* (The eps that the tensor implementation adds to theta before dividing   *)
(* the axis is not counted as a difference here.)                          *)
(* Violated: for the rotation of the quaternion (2,-3,0,0)/sqrt(13) the    *)
(* numpy path returns q and the tensor path -q; for the quaternion         *)
(* [1,0,0,0] the numpy path returns [0,0,0] and the tensor path NaN; for   *)
(* theta^2 in (2^-23, 1e-6] the two paths select different cases.          *)
(***************************************************************************)
WithoutGuard(e) == IF e.k = "rod" THEN [e EXCEPT !.plus = Zero] ELSE e

SameMatrix(a, b) ==
    \A i \in 1..4 : \A j \in 1..4 :
        a[i][j].k # "nan" /\ WithoutGuard(a[i][j]) = WithoutGuard(b[i][j])

SameVector(a, b) == a.k # "nan" /\ a = b

ValidInput(f, x, den) ==
    CASE f = "angle_axis_to_rotation_matrix" -> TRUE
      [] f = "rotation_matrix_to_quaternion" -> IsRotation(x, den)
      [] f = "quaternion_to_angle_axis" -> ~IsZeroVector(x)

C8_BatchEqualsUnbatched ==
    ( /\ pc = "returned" /\ fn \in DualPathEntryPoints
      /\ arg.type = "tensor" /\ ValidShape(fn, arg)
      /\ Rank(arg) = 2 \/ TrailingShape(arg, 2) = <<4, 4>>
      /\ \A b \in 1..arg.shape[1] :
            arg.num[b] = arg.num[1] /\ ValidInput(fn, arg.num[b], arg.den) )
    => /\ out.kind = "ok"
       /\ Len(out.value) = arg.shape[1]
       /\ \A b \in 1..arg.shape[1] :
             IF fn = "angle_axis_to_rotation_matrix"
             THEN LET ref == angle_axis_to_rotation_matrix_numpy(
                                 NdArray(<<3>>, arg.num[b], arg.den))
                  IN  ref.kind = "ok" /\ SameMatrix(out.value[b], ref.value)
             ELSE IF fn = "rotation_matrix_to_quaternion"
             THEN LET ref == rotation_matrix_to_quaternion_numpy(
                                 NdArray(<<4, 4>>, arg.num[b], arg.den))
                  IN  ref.kind = "ok" /\ SameVector(out.value[b], ref.value)
             ELSE LET ref == quaternion_to_angle_axis_numpy(
                                 NdArray(<<4>>, arg.num[b], arg.den))
                  IN  ref.kind = "ok" /\ SameVector(out.value[b], ref.value)

(***************************************************************************)
(* C9.  For every unit quaternion q, also with scalar part 0,              *)
(* quaternion_to_angle_axis(q) and quaternion_to_angle_axis(-q) return the *)
(* same axis-angle vector.  (Both implementations scale q by 1/norm(q)     *)
(* first, so a non-zero integer quaternion stands for its unit multiple.)  *)
(* Violated: the tensor path returns NaN for [1,0,0,0] and [-1,0,0,0], and *)
(* 2*(-v) for a quaternion -q whose vector part v has v.v <= eps, where q  *)
(* gives 2*v; with scalar part 0 both paths return vectors of opposite     *)
(* sign.                                                                   *)
(***************************************************************************)
Negated(a) ==
    [a EXCEPT !.num = IF Rank(a) = 1 THEN [i \in 1..Len(a.num) |-> -a.num[i]]
                      ELSE [b \in 1..Len(a.num) |->
                               [i \in 1..Len(a.num[b]) |-> -a.num[b][i]]]]

C9_AntipodalSameAxisAngle ==
    ( /\ Returned("quaternion_to_angle_axis")
      /\ IsArray(arg) /\ ValidShape("quaternion_to_angle_axis", arg)
      /\ IF arg.type = "ndarray" THEN ~IsZeroVector(arg.num)
         ELSE \A b \in 1..arg.shape[1] : ~IsZeroVector(arg.num[b]) )
    => LET other == quaternion_to_angle_axis(Negated(arg))
       IN  /\ out.kind = "ok" /\ other.kind = "ok"
           /\ IF arg.type = "ndarray" THEN SameVector(out.value, other.value)
              ELSE \A b \in 1..arg.shape[1] : SameVector(out.value[b], other.value[b])

(***************************************************************************)
(* C10.  In the tensor rotation_matrix_to_quaternion, for every valid      *)
(* rotation matrix the case selection is: R22 < eps and R00 > R11 -> t0;   *)
(* R22 < eps and R00 <= R11 -> t1; R22 >= eps and R00 < -R11 -> t2;        *)
(* otherwise t3.                                                           *)
(* As claimed: the pivot selected is the largest of t0, t1, t2, t3.        *)
(* Violated by the rotation of the quaternion (3,4,0,3)/sqrt(34): R22 > 0  *)
(* and R00 >= -R11 select t3 = 36/34, while t0 = 64/34.                    *)
(***************************************************************************)
Max(a, b) == IF a >= b THEN a ELSE b

C10_PivotIsLargestOfFour ==
    ( /\ Returned("rotation_matrix_to_quaternion")
      /\ arg.type = "tensor" /\ Rank(arg) = 3 /\ TrailingShape(arg, 2) = <<4, 4>> )
    => \A b \in 1..arg.shape[1] :
          IsRotation(arg.num[b], arg.den) =>
             LET t == TorchPivots(arg.num[b], arg.den)
             IN  TorchSelectedPivot(arg.num[b], arg.den)
                    = Max(Max(t[1], t[2]), Max(t[3], t[4]))

(***************************************************************************)
(* C10, amended.  With the same case selection, the pivot selected is the  *)
(* larger of t0 and t1 when R22 < eps and the larger of t2 and t3 when     *)
(* R22 >= eps.                                                             *)
(***************************************************************************)
C10_PivotIsLargestOfItsPair ==
    ( /\ Returned("rotation_matrix_to_quaternion")
      /\ arg.type = "tensor" /\ Rank(arg) = 3 /\ TrailingShape(arg, 2) = <<4, 4>> )
    => \A b \in 1..arg.shape[1] :
          IsRotation(arg.num[b], arg.den) =>
             LET m    == arg.num[b]
                 t    == TorchPivots(m, arg.den)
                 low  == m[3][3] * TorchEpsDen < arg.den
                 case == IF low /\ m[1][1] > m[2][2] THEN 1
                         ELSE IF low THEN 2
                         ELSE IF m[1][1] < -m[2][2] THEN 3
                         ELSE 4
             IN  /\ TorchCaseMasks(m, arg.den) = [c \in 1..4 |-> IF c = case THEN 1 ELSE 0]
                 /\ TorchSelectedPivot(m, arg.den) = t[case]
                 /\ t[case] = IF low THEN Max(t[1], t[2]) ELSE Max(t[3], t[4])

\* a rotation has been converted whose selected pivot is the larger of its
\* pair and smaller than a pivot of the other pair
C10_Witness ==
    /\ Returned("rotation_matrix_to_quaternion")
    /\ arg.type = "tensor" /\ arg.shape = <<1, 4, 4>>
    /\ IsRotation(arg.num[1], arg.den)
    /\ LET t == TorchPivots(arg.num[1], arg.den)
       IN  /\ TorchSelectedPivot(arg.num[1], arg.den) = Max(t[3], t[4])
           /\ TorchSelectedPivot(arg.num[1], arg.den) < Max(t[1], t[2])
    /\ out.kind = "ok"

(***************************************************************************)
(* C11.  Each exported layer class (AngleAxisToRotationMatrix,             *)
(* RotationMatrixToAngleAxis, RotationMatrixToQuaternion,                  *)
(* QuaternionToAngleAxis, RtvecToPose) can be constructed, and its         *)
(* forward(x) returns what the function of the same name                   *)
(* (angle_axis_to_rotation_matrix, rotation_matrix_to_angle_axis,          *)
(* rotation_matrix_to_quaternion, quaternion_to_angle_axis, rtvec_to_pose) *)
(* returns on x, or raises the same error.                                 *)
(* Violated: the constructor of RotationMatrixToQuaternion raises          *)
(* NameError (super(RotationMatrixToQuaterion, self)), and the forward of  *)
(* QuaternionToAngleAxis raises NameError (quaterion_to_angle_axis) on     *)
(* every input.                                                            *)
(***************************************************************************)
FunctionOfLayer(class, x) ==
    CASE class = "AngleAxisToRotationMatrix" -> angle_axis_to_rotation_matrix(x)
      [] class = "RotationMatrixToAngleAxis" -> rotation_matrix_to_angle_axis(x)
      [] class = "RotationMatrixToQuaternion" -> rotation_matrix_to_quaternion(x)
      [] class = "QuaternionToAngleAxis" -> quaternion_to_angle_axis(x)
      [] class = "RtvecToPose" -> rtvec_to_pose(x)

C11_LayerEqualsFunction ==
    fn \in LayerClasses =>
        /\ pc \in {"constructed", "forwarded"}
        /\ pc = "constructed" => out.kind = "ok"
        /\ pc = "forwarded" => out = FunctionOfLayer(fn, arg)

(***************************************************************************)
(* C12.  In the tensor rotation_matrix_to_quaternion exactly one of the    *)
(* four branch masks is set for each batch element.                        *)
(* As claimed: for every input matrix with finite entries, valid rotation  *)
(* or not, the pivot of that branch is at least 1 - eps, so that the       *)
(* square root is never taken of a negative number and the division is     *)
(* never by zero.                                                          *)
(* Violated by diag(2^26, 2^26, 0): branch 1 is selected, and              *)
(* t1 = 1 - 2^26 + 2^26 - 0 is 0 in float32, the 1 being absorbed; the     *)
(* quaternion is 0 / sqrt(0).                                              *)
(***************************************************************************)
TorchRan == Returned("rotation_matrix_to_quaternion") /\ arg.type = "tensor" /\ out.kind = "ok"

OneMask(m, den) ==
    LET c == TorchCaseMasks(m, den)
    IN  c[1] + c[2] + c[3] + c[4] = 1 /\ \A i \in 1..4 : c[i] \in {0, 1}

\* the selected pivot t / den is at least 1 - eps, and the result is finite
SafePivot(m, den, q) ==
    /\ TorchSelectedPivot(m, den) * TorchEpsDen >= (TorchEpsDen - 1) * den
    /\ q.k # "nan"

C12_OneMaskSafePivot ==
    TorchRan =>
        \A b \in 1..arg.shape[1] :
            /\ OneMask(arg.num[b], arg.den)
            /\ SafePivot(arg.num[b], arg.den, out.value[b])

(***************************************************************************)
(* C12, amended.  Exactly one of the four branch masks is set for each     *)
(* batch element, for every input matrix; the pivot of that branch is at   *)
(* least 1 - eps, and the quaternion finite, for every input matrix,       *)
(* valid rotation or not, whose diagonal entries have magnitude at most    *)
(* 2^22 (where the float32 sums of integers are exact).                    *)
(***************************************************************************)
ExactSumLimit == 2^22

C12_OneMaskSafePivotWithinLimit ==
    TorchRan =>
        \A b \in 1..arg.shape[1] :
            /\ OneMask(arg.num[b], arg.den)
            /\ (\A i \in 1..3 : Abs(arg.num[b][i][i]) <= ExactSumLimit * arg.den)
                  => SafePivot(arg.num[b], arg.den, out.value[b])

\* the matrix -I, no rotation, has been converted through branch 1, next to
\* the identity through branch 3
C12_Witness ==
    /\ TorchRan
    /\ arg.shape = <<2, 4, 4>> /\ arg.den = 1
    /\ arg.num[1] = DiagonalOf(-1, -1, -1).num
    /\ ~IsRotation(arg.num[1], arg.den)
    /\ TorchCaseMasks(arg.num[1], arg.den) = <<0, 1, 0, 0>>
    /\ TorchCaseMasks(arg.num[2], arg.den) = <<0, 0, 0, 1>>
    /\ TorchSelectedPivot(arg.num[1], arg.den) = 2
    /\ out.value[1].k = "surd"

====
